---------------------------- MODULE Spec2Model ----------------------------
(***************************************************************************)
(* Model of the IsItChristmas screenshot service:                          *)
(*   - the Geo Resolver, get_country_from_ip (src/maxmind.py, and its copy *)
(*     in src/app.py), with the module-level load of the GeoIP reader;     *)
(*   - the Capture Pipeline, capture_isitchristmas_screenshot              *)
(*     (src/screenshot.py, and its copy in src/app.py), one coroutine per  *)
(*     invocation, cut at its awaits.                                      *)
(*                                                                         *)
(* Text is modelled as a sequence of one-character strings; the fixed      *)
(* literal "var country = " of the rewrite pattern is one token.  An IP    *)
(* address text is the sequence of its dot-separated parts, each part the  *)
(* number it spells, or NonNumeric when it is not a decimal number.        *)
(***************************************************************************)
EXTENDS Integers, Sequences, FiniteSets, TLC

VARIABLES
    \* ---- Geo Resolver ----
    geoip_reader,   \* module global: 0 for None, else the index of the loaded path
    ip_address,     \* the argument of the call under check
    db_entry,       \* what the dataset answers for that address
    called,         \* whether get_country_from_ip has run
    ret,            \* the value it returned (NoReturn before, or when it raised)
    raised,         \* the exception that escaped it (NoException when none)
    queried,        \* whether geoip_reader.country was called
    fs,             \* the candidate database files as the process finds them
    imported,       \* the modules whose top-level code has run
    app_geoip_reader, \* the module global of app.py, as geoip_reader
    app_out,        \* what app.get_country_from_ip did for ip_address (NoCall before)
    \* ---- Capture Pipeline, per invocation ----
    env,            \* what callers pass and what the site serves
    pc,             \* position of the coroutine
    country_code,   \* the argument of the invocation
    playwright,     \* "none", "started", "stopped": the async-with scope
    browser,        \* "none", "open", "closed"
    page,           \* FALSE, or the viewport of the page opened
    routed,         \* whether handle_route is installed on the page
    requests,       \* the requests the page issued, in order, each with its fate
    screenshot_bytes, \* the local holding the PNG taken
    result,         \* NoResult, an error, or the PNG returned
    log,            \* the calls the invocation has made, in order
    \* ---- GET /screenshot, per invocation ----
    http            \* the request, the locals of get_screenshot, and its outcome

geoVars == <<geoip_reader, ip_address, db_entry, called, ret, raised, queried,
             fs, imported, app_geoip_reader, app_out>>
capVars == <<env, pc, country_code, playwright, browser, page, routed,
             requests, screenshot_bytes, result, log, http>>
vars == <<geoVars, capVars>>

---------------------------------------------------------------------------
(* Bounds of the model *)

\* longest address text, in dot-separated parts
MaxParts == 4
\* capture invocations that may be in flight together
NumInvocations == 2
\* sub-resource requests a page issues after its document
MaxSubRequests == 1

---------------------------------------------------------------------------
(* Text *)

GB == <<"G", "B">>
US == <<"U", "S">>
AU == <<"A", "U">>
FR == <<"F", "R">>
SE == <<"S", "E">>

UpperLetters == {"A", "B", "E", "F", "G", "R", "S", "U", "X"}
LowerLetters == {"g", "n", "u", "s"}
Digits == {"1"}

\* a sample of the ISO 3166-1 alpha-2 set (pycountry in the tests)
Iso3166Alpha2 == {GB, US, AU, FR, SE}

---------------------------------------------------------------------------
(* Geo Resolver *)

NonNumeric == -1
\* the parts an address text is built from
Parts == {NonNumeric, 8, 10, 127, 168, 192, 999}
\* ip_address as text: "" is <<>>, "8.8.8.8" is <<8,8,8,8>>, "not_an_ip" is <<-1>>
IpTexts == UNION {[1..n -> Parts] : n \in 0..MaxParts}
\* the absent value (None): no text at all
AbsentIp == <<-2>>
IpInputs == IpTexts \cup {AbsentIp}

NoneValue == <<"<None>">>
NoReturn == <<"<no return>">>
NoException == "none"

\* candidate database files: each is missing, exists but fails to load, or loads
NumPaths == 3
FileStates == {"missing", "corrupt", "ok"}
FileSystems == [1..NumPaths -> FileStates]

RECURSIVE LoadFromStopAtFailure(_, _)
LoadFromStopAtFailure(files, k) ==
    IF k > NumPaths THEN 0
    ELSE IF files[k] = "ok" THEN k
    ELSE IF files[k] = "corrupt" THEN 0
    ELSE LoadFromStopAtFailure(files, k + 1)

\* the loop over GEOIP_DB_PATHS: the first path that exists and loads, else None (0)
RECURSIVE LoadFrom(_, _)
LoadFrom(files, k) ==
    IF k > NumPaths THEN 0
    ELSE IF files[k] = "ok" THEN k
    ELSE LoadFrom(files, k + 1)

LoadReader(files) == LoadFrom(files, 1)

\* ipaddress.ip_address(text): four decimal parts, each 0..255, else ValueError
ParseIp(text) ==
    IF Len(text) = 4 /\ \A k \in 1..4 : text[k] \in 0..255
    THEN [ok |-> TRUE, octets |-> text, exc |-> NoException]
    ELSE [ok |-> FALSE, octets |-> <<>>, exc |-> "ValueError"]

\* IPv4Address.is_private: membership in the private-use networks
IsPrivate(a) ==
    \/ a[1] = 0
    \/ a[1] = 10
    \/ a[1] = 127
    \/ a[1] = 169 /\ a[2] = 254
    \/ a[1] = 172 /\ a[2] \in 16..31
    \/ a[1] = 192 /\ a[2] = 0 /\ a[3] = 0 /\ a[4] \in 0..7
    \/ a[1] = 192 /\ a[2] = 0 /\ a[3] = 0 /\ a[4] \in 170..171
    \/ a[1] = 192 /\ a[2] = 0 /\ a[3] = 2
    \/ a[1] = 192 /\ a[2] = 168
    \/ a[1] = 198 /\ a[2] \in 18..19
    \/ a[1] = 198 /\ a[2] = 51 /\ a[3] = 100
    \/ a[1] = 203 /\ a[2] = 0 /\ a[3] = 113
    \/ a[1] \in 240..255

\* IPv4Address.is_loopback: 127.0.0.0/8
IsLoopback(a) == a[1] = 127

IsLocalLoopbackOnly(a) == IsLoopback(a)

\* the test of line 55
IsLocal(a) == IsPrivate(a) \/ IsLoopback(a)

\* exception classes and the class each derives from
ExcParent(e) ==
    CASE e = "AddressNotFoundError" -> "GeoIP2Error"
      [] e = "GeoIP2Error" -> "RuntimeError"
      [] e = "InvalidDatabaseError" -> "RuntimeError"
      [] e = "RuntimeError" -> "Exception"
      [] e = "ValueError" -> "Exception"
      [] e = "TimeoutError" -> "Exception"
      [] e = "re.error" -> "Exception"
      [] e = "Error" -> "Exception"
      [] OTHER -> "BaseException"

RECURSIVE IsInstance(_, _)
IsInstance(e, cls) ==
    IF e = cls THEN TRUE
    ELSE IF e = "BaseException" THEN FALSE
    ELSE IsInstance(ExcParent(e), cls)

ParseCatchesNothing(e) == FALSE

\* the except clause of the first try: ValueError
ParseCatches(e) == IsInstance(e, "ValueError")

LookupCatchesNotFoundOnly(e) == IsInstance(e, "AddressNotFoundError")

\* the except clauses of the second try: AddressNotFoundError, then Exception
LookupCatches(e) ==
    IsInstance(e, "AddressNotFoundError") \/ IsInstance(e, "Exception")

\* what the dataset can answer for one address: a country record with an ISO
\* code, a record without a code (None or empty), a miss, or another error
DatasetCodes == {US, AU}
DbEntries ==
    [exc : {NoException}, iso_code : DatasetCodes \cup {NoneValue, <<>>}]
        \cup [exc : {"AddressNotFoundError", "InvalidDatabaseError"},
              iso_code : {NoneValue}]

HasCountryAlways(code) == TRUE

HasCountryNotNone(code) == code # NoneValue

\* `if country_code:` the truth value of Optional[str]
HasCountry(code) == code # NoneValue /\ code # <<>>

ReaderLoadedAlways(reader) == TRUE

\* `if geoip_reader:` the reader is None (0) when no dataset was loaded
ReaderLoaded(reader) == reader # 0

\* get_country_from_ip: the returned value, the escaping exception, and whether
\* the reader was queried
GetCountryFromIp(text, reader, entry) ==
    LET parsed == ParseIp(text) IN
    IF ~parsed.ok
    THEN IF ParseCatches(parsed.exc)
         THEN [ret |-> GB, raised |-> NoException, queried |-> FALSE]
         ELSE [ret |-> NoReturn, raised |-> parsed.exc, queried |-> FALSE]
    ELSE IF IsLocal(parsed.octets)
    THEN [ret |-> GB, raised |-> NoException, queried |-> FALSE]
    ELSE IF ~ReaderLoaded(reader)
    THEN [ret |-> GB, raised |-> NoException, queried |-> FALSE]
    ELSE IF entry.exc # NoException
    THEN IF LookupCatches(entry.exc)
         THEN [ret |-> GB, raised |-> NoException, queried |-> TRUE]
         ELSE [ret |-> NoReturn, raised |-> entry.exc, queried |-> TRUE]
    ELSE IF HasCountry(entry.iso_code)
    THEN [ret |-> entry.iso_code, raised |-> NoException, queried |-> TRUE]
    ELSE [ret |-> GB, raised |-> NoException, queried |-> TRUE]

\* ---- the copy in app.py ----

\* app.py: the loop over GEOIP_DB_PATHS
RECURSIVE LoadFromApp(_, _)
LoadFromApp(files, k) ==
    IF k > NumPaths THEN 0
    ELSE IF files[k] = "missing" THEN LoadFromApp(files, k + 1)
    ELSE IF files[k] = "ok" THEN k
    ELSE LoadFromApp(files, k + 1)

LoadReaderApp(files) == LoadFromApp(files, 1)

NoCall == [ret |-> NoReturn, raised |-> "not called", queried |-> FALSE]

GetCountryFromIpAppNoLocalTest(text, reader, entry) ==
    LET parsed == ParseIp(text)
        fallback == [ret |-> GB, raised |-> NoException, queried |-> FALSE]
    IN
    IF ~parsed.ok \/ reader = 0 THEN fallback
    ELSE IF entry.exc = NoException /\ entry.iso_code # NoneValue /\ entry.iso_code # <<>>
    THEN [ret |-> entry.iso_code, raised |-> NoException, queried |-> TRUE]
    ELSE [ret |-> GB, raised |-> NoException, queried |-> TRUE]

\* app.get_country_from_ip, with its own try blocks and returns
GetCountryFromIpApp(text, reader, entry) ==
    LET parsed == ParseIp(text)
        fallback == [ret |-> GB, raised |-> NoException, queried |-> FALSE]
    IN
    CASE ~parsed.ok /\ IsInstance(parsed.exc, "ValueError") -> fallback
      [] ~parsed.ok /\ ~IsInstance(parsed.exc, "ValueError") ->
            [ret |-> NoReturn, raised |-> parsed.exc, queried |-> FALSE]
      [] parsed.ok /\ (IsPrivate(parsed.octets) \/ IsLoopback(parsed.octets)) -> fallback
      [] OTHER ->
            IF reader = 0 THEN fallback
            ELSE IF entry.exc = NoException
            THEN IF entry.iso_code # NoneValue /\ entry.iso_code # <<>>
                 THEN [ret |-> entry.iso_code, raised |-> NoException, queried |-> TRUE]
                 ELSE [ret |-> GB, raised |-> NoException, queried |-> TRUE]
            ELSE IF IsInstance(entry.exc, "AddressNotFoundError")
            THEN [ret |-> GB, raised |-> NoException, queried |-> TRUE]
            ELSE IF IsInstance(entry.exc, "Exception")
            THEN [ret |-> GB, raised |-> NoException, queried |-> TRUE]
            ELSE [ret |-> NoReturn, raised |-> entry.exc, queried |-> TRUE]

---------------------------------------------------------------------------
(* Capture Pipeline: text rewriting *)

VarCountryEq == "var country = "
Quotes == {"\"", "'"}
Backslash == "\\"
AsciiLetters == UpperLetters \cup LowerLetters

\* r'var country = ["\'][A-Z]{2}["\'];' matches body at position k
MatchAt(body, k) ==
    /\ k + 5 <= Len(body)
    /\ body[k] = VarCountryEq
    /\ body[k + 1] \in Quotes
    /\ body[k + 2] \in UpperLetters
    /\ body[k + 3] \in UpperLetters
    /\ body[k + 4] \in Quotes
    /\ body[k + 5] = ";"

HasMatch(body) == \E k \in 1..Len(body) : MatchAt(body, k)

\* f'var country = "{country_code}";'
Replacement(code) == <<VarCountryEq, "\"">> \o code \o <<"\"", ";">>

\* re.sub reads its replacement as a template: a backslash starts an escape.
\* \\ is one backslash, \n a newline, a backslash before another ASCII letter is
\* a bad escape, \d or \dd a group reference (the pattern has no group, so an
\* invalid one), \ddd an octal character, and a backslash before anything else
\* stays with what follows it.  Yields the text to insert, or re.error.
RECURSIVE ExpandTemplate(_, _)
ExpandTemplate(t, k) ==
    IF k > Len(t) THEN [exc |-> NoException, text |-> <<>>]
    ELSE IF t[k] # Backslash
    THEN LET rest == ExpandTemplate(t, k + 1) IN
         [exc |-> rest.exc, text |-> <<t[k]>> \o rest.text]
    ELSE IF k = Len(t) THEN [exc |-> "re.error", text |-> <<>>]
    ELSE LET c == t[k + 1] IN
         IF c = Backslash
         THEN LET rest == ExpandTemplate(t, k + 2) IN
              [exc |-> rest.exc, text |-> <<Backslash>> \o rest.text]
         ELSE IF c = "n"
         THEN LET rest == ExpandTemplate(t, k + 2) IN
              [exc |-> rest.exc, text |-> <<"\n">> \o rest.text]
         ELSE IF c \in AsciiLetters THEN [exc |-> "re.error", text |-> <<>>]
         ELSE IF c \in Digits
         THEN IF k + 3 <= Len(t) /\ t[k + 2] \in Digits /\ t[k + 3] \in Digits
              THEN LET rest == ExpandTemplate(t, k + 4) IN
                   [exc |-> rest.exc, text |-> <<"<octal>">> \o rest.text]
              ELSE [exc |-> "re.error", text |-> <<>>]
         ELSE LET rest == ExpandTemplate(t, k + 2) IN
              [exc |-> rest.exc, text |-> <<Backslash, c>> \o rest.text]

\* every non-overlapping match of the pattern, leftmost first, replaced by text
RECURSIVE ReplaceAll(_, _, _)
ReplaceAll(body, text, k) ==
    IF k > Len(body) THEN <<>>
    ELSE IF MatchAt(body, k) THEN text \o ReplaceAll(body, text, k + 6)
    ELSE <<body[k]>> \o ReplaceAll(body, text, k + 1)

\* re.sub(pattern, f'var country = "{country_code}";', body): the template is
\* compiled before the search, so a bad template raises with or without a match
ReSub(code, body) ==
    LET tpl == ExpandTemplate(Replacement(code), 1) IN
    IF tpl.exc # NoException
    THEN [exc |-> tpl.exc, text |-> <<>>]
    ELSE [exc |-> NoException, text |-> ReplaceAll(body, tpl.text, 1)]

---------------------------------------------------------------------------
(* Capture Pipeline: sessions *)

Invocations == 1..NumInvocations
NoResult == [kind |-> "none"]
NoResponse == [status |-> 0, headers |-> "", body |-> <<>>]
NoBytes == [type |-> "none"]

\* country codes callers pass: the default, a code uppercased from a query
\* parameter, and parameters that are not codes at all
CountryCodes == {SE, FR, <<Backslash, "1">>, <<Backslash, Backslash>>}

\* documents the site may serve
BodyMatch == <<"<html>", VarCountryEq, "\"", "U", "S", "\"", ";", "</html>">>
BodyTwoMatches ==
    <<VarCountryEq, "'", "G", "B", "'", ";", "<p>", VarCountryEq, "\"", "U", "S", "'", ";">>
BodyNoMatch == <<"<html>", "</html>">>
BodyLowercase == <<"<html>", VarCountryEq, "\"", "u", "s", "\"", ";", "</html>">>
BodyThreeLetters == <<VarCountryEq, "\"", "U", "S", "A", "\"", ";">>
DocResponses ==
    [status : {200}, headers : {"text/html"},
     body : {BodyMatch, BodyTwoMatches, BodyNoMatch, BodyLowercase, BodyThreeLetters}]
        \cup {[status |-> 503, headers |-> "text/plain", body |-> BodyNoMatch]}

\* what the server answers for a sub-resource: a script may hold the pattern too
SubResourceTypes == {"script", "image"}
SubResponse(type) ==
    IF type = "script"
    THEN [status |-> 200, headers |-> "text/javascript",
          body |-> <<VarCountryEq, "\"", "U", "S", "\"", ";">>]
    ELSE [status |-> 200, headers |-> "image/png", body |-> <<"<pixels>">>]

Viewport == [width |-> 1920, height |-> 1080]

\* a request the page issues, as the route sees it
NewRequest(type, intercepted) ==
    [resource_type |-> type, intercepted |-> intercepted, handler |-> "idle",
     fetches |-> 0, fulfills |-> 0, continues |-> 0,
     fetched |-> NoResponse, resolution |-> "pending", delivered |-> NoResponse]

IsDocumentOrScript(req) == req.resource_type \in {"document", "script"}

\* route.request.resource_type == "document"
IsDocument(req) == req.resource_type = "document"

ClosureCountryOfFirst(i) == country_code[CHOOSE j \in Invocations : pc[j] # "idle"]

\* the country_code handle_route closes over: the argument of its own invocation
ClosureCountry(i) == country_code[i]

\* page.screenshot(type="png", full_page=True): the rendering of what the page
\* was given
Png(i) ==
    [type |-> "png", full_page |-> TRUE,
     content |-> [k \in 1..Len(requests[i]) |-> requests[i][k].delivered]]

AfterRaiseRetry(at) ==
    CASE at = "launch" -> "launch"
      [] at = "navigating" -> "goto"
      [] OTHER -> "failed"

\* no try/except in capture: an awaited call that raises ends the invocation
AfterRaise(at) == "failed"

\* the awaited call made at each position
CallAt(at) == IF at = "navigating" THEN "goto" ELSE at
AwaitPcs ==
    {"launch", "new_page", "route", "navigating", "wait_for_timeout",
     "screenshot", "close"}

Logged(i, call, ok) == log' = [log EXCEPT ![i] = Append(@, [call |-> call, ok |-> ok])]

\* no request was made of get_screenshot
NoRequest ==
    [state |-> "none", query |-> NoneValue, xff |-> <<>>, peer |-> NoneValue,
     client_ip |-> NoneValue, geo |-> NoCall, country |-> NoneValue,
     response |-> [status_code |-> 0]]

CapIdle ==
    /\ http = [i \in Invocations |-> NoRequest]
    /\ pc = [i \in Invocations |-> "idle"]
    /\ country_code = [i \in Invocations |-> <<>>]
    /\ playwright = [i \in Invocations |-> "none"]
    /\ browser = [i \in Invocations |-> "none"]
    /\ page = [i \in Invocations |-> FALSE]
    /\ routed = [i \in Invocations |-> FALSE]
    /\ requests = [i \in Invocations |-> <<>>]
    /\ screenshot_bytes = [i \in Invocations |-> NoBytes]
    /\ result = [i \in Invocations |-> NoResult]
    /\ log = [i \in Invocations |-> <<>>]

GeoIdle ==
    /\ fs = [k \in 1..NumPaths |-> "missing"]
    /\ imported = {}
    /\ app_geoip_reader = 0
    /\ app_out = NoCall
    /\ geoip_reader = 0
    /\ ip_address = <<>>
    /\ db_entry = [exc |-> NoException, iso_code |-> NoneValue]
    /\ called = FALSE
    /\ ret = NoReturn
    /\ raised = NoException
    /\ queried = FALSE

\* capture_isitchristmas_screenshot(code) is called: async with async_playwright()
Call(i, code) ==
    /\ pc[i] = "idle"
    /\ pc' = [pc EXCEPT ![i] = "launch"]
    /\ country_code' = [country_code EXCEPT ![i] = code]
    /\ playwright' = [playwright EXCEPT ![i] = "started"]
    /\ UNCHANGED <<geoVars, http, env, browser, page, routed, requests,
                   screenshot_bytes, result, log>>

\* browser = await p.chromium.launch(headless=True)
Launch(i) ==
    /\ pc[i] = "launch"
    /\ pc' = [pc EXCEPT ![i] = "new_page"]
    /\ browser' = [browser EXCEPT ![i] = "open"]
    /\ Logged(i, "launch", TRUE)
    /\ UNCHANGED <<geoVars, http, env, country_code, playwright, page, routed,
                   requests, screenshot_bytes, result>>

\* page = await browser.new_page(viewport={"width": 1920, "height": 1080})
NewPage(i) ==
    /\ pc[i] = "new_page"
    /\ pc' = [pc EXCEPT ![i] = "route"]
    /\ page' = [page EXCEPT ![i] = Viewport]
    /\ Logged(i, "new_page", TRUE)
    /\ UNCHANGED <<geoVars, http, env, country_code, playwright, browser, routed,
                   requests, screenshot_bytes, result>>

RouteNotInstalled(i) ==
    /\ pc[i] = "route"
    /\ pc' = [pc EXCEPT ![i] = "goto"]
    /\ Logged(i, "route", TRUE)
    /\ UNCHANGED <<geoVars, http, env, country_code, playwright, browser, page,
                   routed, requests, screenshot_bytes, result>>

\* await page.route("**/*", handle_route)
Route(i) ==
    /\ pc[i] = "route"
    /\ pc' = [pc EXCEPT ![i] = "goto"]
    /\ routed' = [routed EXCEPT ![i] = TRUE]
    /\ Logged(i, "route", TRUE)
    /\ UNCHANGED <<geoVars, http, env, country_code, playwright, browser, page,
                   requests, screenshot_bytes, result>>

\* page.goto("https://isitchristmas.com", wait_until="networkidle") starts: the
\* page requests its document
Goto(i) ==
    /\ pc[i] = "goto"
    /\ pc' = [pc EXCEPT ![i] = "navigating"]
    /\ requests' = [requests EXCEPT ![i] = <<NewRequest("document", routed[i])>>]
    /\ UNCHANGED <<geoVars, http, env, country_code, playwright, browser, page,
                   routed, screenshot_bytes, result, log>>

\* the loaded document makes the page request a sub-resource
IssueSubRequest(i, type) ==
    /\ pc[i] = "navigating"
    /\ Len(requests[i]) >= 1
    /\ requests[i][1].resolution = "fulfill"
    /\ Len(requests[i]) - 1 < env.subs
    /\ requests' = [requests EXCEPT ![i] = Append(@, NewRequest(type, routed[i]))]
    /\ UNCHANGED <<geoVars, http, env, pc, country_code, playwright, browser, page,
                   routed, screenshot_bytes, result, log>>

\* handle_route(route) up to its first await: a document is fetched on the
\* page's behalf, anything else is continued
HandleRoute(i, k) ==
    /\ pc[i] = "navigating"
    /\ k \in 1..Len(requests[i])
    /\ requests[i][k].intercepted
    /\ requests[i][k].resolution = "pending"
    /\ requests[i][k].fetches = 0
    /\ LET req == requests[i][k] IN
       IF IsDocument(req)
       THEN \E resp \in (IF req.resource_type = "document"
                         THEN env.responses
                         ELSE {SubResponse(req.resource_type)}) :
                requests' = [requests EXCEPT ![i][k] =
                                [@ EXCEPT !.handler = "running",
                                          !.fetches = @ + 1, !.fetched = resp]]
       ELSE requests' = [requests EXCEPT ![i][k] =
                            [@ EXCEPT !.handler = "returned",
                                      !.continues = @ + 1,
                                      !.resolution = "continue",
                                      !.delivered = SubResponse(req.resource_type)]]
    /\ UNCHANGED <<geoVars, http, env, pc, country_code, playwright, browser, page,
                   routed, screenshot_bytes, result, log>>

HandleRouteFulfillThenContinue(i, k) ==
    /\ pc[i] = "navigating"
    /\ k \in 1..Len(requests[i])
    /\ requests[i][k].resolution = "pending"
    /\ requests[i][k].fetches > 0
    /\ LET req == requests[i][k]
           sub == ReSub(ClosureCountry(i), req.fetched.body)
       IN  IF sub.exc # NoException
           THEN requests' = [requests EXCEPT ![i][k] =
                                [@ EXCEPT !.handler = "raised", !.resolution = "error"]]
           ELSE requests' = [requests EXCEPT ![i][k] =
                                [@ EXCEPT !.handler = "returned",
                                          !.fulfills = @ + 1,
                                          !.continues = @ + 1,
                                          !.resolution = "fulfill",
                                          !.delivered = [status |-> req.fetched.status,
                                                         headers |-> req.fetched.headers,
                                                         body |-> sub.text]]]
    /\ UNCHANGED <<geoVars, http, env, pc, country_code, playwright, browser, page,
                   routed, screenshot_bytes, result, log>>

\* handle_route after the fetch: body = await response.text(), re.sub, and
\* route.fulfill(response=response, body=modified_body); a re.error leaves the
\* route unresolved
HandleRouteFulfill(i, k) ==
    /\ pc[i] = "navigating"
    /\ k \in 1..Len(requests[i])
    /\ requests[i][k].resolution = "pending"
    /\ requests[i][k].fetches > 0
    /\ LET req == requests[i][k]
           sub == ReSub(ClosureCountry(i), req.fetched.body)
       IN  IF sub.exc # NoException
           THEN requests' = [requests EXCEPT ![i][k] =
                                [@ EXCEPT !.handler = "raised", !.resolution = "error"]]
           ELSE requests' = [requests EXCEPT ![i][k] =
                                [@ EXCEPT !.handler = "returned",
                                          !.fulfills = @ + 1,
                                          !.resolution = "fulfill",
                                          !.delivered = [status |-> req.fetched.status,
                                                         headers |-> req.fetched.headers,
                                                         body |-> sub.text]]]
    /\ UNCHANGED <<geoVars, http, env, pc, country_code, playwright, browser, page,
                   routed, screenshot_bytes, result, log>>

\* page.goto returns: the document is loaded and no request is in flight
GotoDone(i) ==
    /\ pc[i] = "navigating"
    /\ Len(requests[i]) >= 1
    /\ requests[i][1].resolution = "fulfill"
    /\ \A k \in 1..Len(requests[i]) : requests[i][k].resolution \in {"fulfill", "continue"}
    /\ pc' = [pc EXCEPT ![i] = "wait_for_timeout"]
    /\ Logged(i, "goto", TRUE)
    /\ UNCHANGED <<geoVars, http, env, country_code, playwright, browser, page,
                   routed, requests, screenshot_bytes, result>>

\* await page.wait_for_timeout(2000)
Settle(i) ==
    /\ pc[i] = "wait_for_timeout"
    /\ pc' = [pc EXCEPT ![i] = "screenshot"]
    /\ Logged(i, "wait_for_timeout", TRUE)
    /\ UNCHANGED <<geoVars, http, env, country_code, playwright, browser, page,
                   routed, requests, screenshot_bytes, result>>

\* screenshot_bytes = await page.screenshot(type="png", full_page=True)
Screenshot(i) ==
    /\ pc[i] = "screenshot"
    /\ pc' = [pc EXCEPT ![i] = "close"]
    /\ screenshot_bytes' = [screenshot_bytes EXCEPT ![i] = Png(i)]
    /\ Logged(i, "screenshot", TRUE)
    /\ UNCHANGED <<geoVars, http, env, country_code, playwright, browser, page,
                   routed, requests, result>>

\* await browser.close()
Close(i) ==
    /\ pc[i] = "close"
    /\ pc' = [pc EXCEPT ![i] = "return"]
    /\ browser' = [browser EXCEPT ![i] = "closed"]
    /\ Logged(i, "close", TRUE)
    /\ UNCHANGED <<geoVars, http, env, country_code, playwright, page, routed,
                   requests, screenshot_bytes, result>>

\* return screenshot_bytes, leaving the async-with scope
Return(i) ==
    /\ pc[i] = "return"
    /\ pc' = [pc EXCEPT ![i] = "done"]
    /\ playwright' = [playwright EXCEPT ![i] = "stopped"]
    /\ result' = [result EXCEPT ![i] = [kind |-> "png", bytes |-> screenshot_bytes[i]]]
    /\ UNCHANGED <<geoVars, http, env, country_code, browser, page, routed, requests,
                   screenshot_bytes, log>>

\* the awaited call raises: the exception leaves the async-with scope, which
\* stops Playwright, and reaches the caller
Raise(i) ==
    /\ pc[i] \in AwaitPcs
    /\ pc' = [pc EXCEPT ![i] = AfterRaise(pc[i])]
    /\ playwright' = [playwright EXCEPT ![i] = "stopped"]
    /\ result' = [result EXCEPT ![i] = [kind |-> "error", at |-> CallAt(pc[i])]]
    /\ Logged(i, CallAt(pc[i]), FALSE)
    /\ UNCHANGED <<geoVars, http, env, country_code, browser, page, routed, requests,
                   screenshot_bytes>>

NextCapture ==
    \/ \E i \in env.sessions, code \in env.codes : Call(i, code)
    \/ \E i \in env.sessions : Launch(i)
    \/ \E i \in env.sessions : NewPage(i)
    \/ \E i \in env.sessions : Route(i)
    \/ \E i \in env.sessions : Goto(i)
    \/ \E i \in env.sessions, type \in env.subtypes : IssueSubRequest(i, type)
    \/ \E i \in env.sessions, k \in 1..(1 + env.subs) : HandleRoute(i, k)
    \/ \E i \in env.sessions, k \in 1..(1 + env.subs) : HandleRouteFulfill(i, k)
    \/ \E i \in env.sessions : GotoDone(i)
    \/ \E i \in env.sessions : Settle(i)
    \/ \E i \in env.sessions : Screenshot(i)
    \/ \E i \in env.sessions : Close(i)
    \/ \E i \in env.sessions : Return(i)
    \/ \E i \in env.sessions : Raise(i)

\* one capture session, with every code and every document of the model
InitCapture ==
    /\ GeoIdle
    /\ CapIdle
    /\ env = [sessions |-> {1}, codes |-> CountryCodes, responses |-> DocResponses,
              subtypes |-> SubResourceTypes, subs |-> MaxSubRequests]

SpecCapture == InitCapture /\ [][NextCapture]_vars

\* NumInvocations capture sessions in flight together, each called with one of
\* two codes, the site serving one document and one script
InitIsolation ==
    /\ GeoIdle
    /\ CapIdle
    /\ env = [sessions |-> Invocations, codes |-> {SE, FR},
              responses |-> {[status |-> 200, headers |-> "text/html", body |-> BodyMatch]},
              subtypes |-> {"script"}, subs |-> 1]

SpecIsolation == InitIsolation /\ [][NextCapture]_vars

---------------------------------------------------------------------------
(* Screenshot Service: GET /screenshot *)

\* the value of X-Forwarded-For as text: commas, spaces and addresses
Comma == [kind |-> ",", ip |-> <<>>]
Space == [kind |-> " ", ip |-> <<>>]
Addr(a) == [kind |-> "addr", ip |-> a]

Localhost == <<127, 0, 0, 1>>
PublicHost == <<8, 8, 8, 8>>
PrivateHost == <<192, 168, 8, 10>>

\* header values clients and proxies send; <<>> is also the default of
\* headers.get when the header is absent
HeaderValues ==
    { <<>>,
      <<Addr(PublicHost)>>,
      <<Space, Addr(PublicHost), Space>>,
      <<Addr(PublicHost), Comma, Space, Addr(PrivateHost)>>,
      <<Space, Addr(PrivateHost), Comma, Addr(PublicHost)>>,
      <<Comma, Addr(PublicHost)>>,
      <<Space>>,
      <<Space, Comma, Addr(PublicHost)>>,
      <<Addr(PublicHost), Space, Addr(PrivateHost)>>,
      <<Addr(<<NonNumeric>>)>> }

\* request.client: None, or the host of the transport peer
Peers == {NoneValue, Localhost, PublicHost}

\* the country query parameter: None when absent
Queries == {NoneValue, <<"g", "b">>, GB, <<"F", "r">>, <<"s", "e">>, <<>>}

\* .split(",")[0]
RECURSIVE FirstEntry(_)
FirstEntry(tokens) ==
    IF tokens = <<>> \/ Head(tokens) = Comma THEN <<>>
    ELSE <<Head(tokens)>> \o FirstEntry(Tail(tokens))

RECURSIVE LStrip(_)
LStrip(tokens) ==
    IF tokens # <<>> /\ Head(tokens) = Space THEN LStrip(Tail(tokens)) ELSE tokens

RECURSIVE RStrip(_)
RStrip(tokens) ==
    IF tokens # <<>> /\ tokens[Len(tokens)] = Space
    THEN RStrip(SubSeq(tokens, 1, Len(tokens) - 1))
    ELSE tokens

StripNothing(tokens) == tokens

\* .strip()
Strip(tokens) == RStrip(LStrip(tokens))

\* the text as an address text: "" is <<>>, one address is itself, anything
\* else is not an address
HeaderText(tokens) ==
    IF tokens = <<>> THEN <<>>
    ELSE IF Len(tokens) = 1 /\ tokens[1].kind = "addr" THEN tokens[1].ip
    ELSE <<NonNumeric>>

\* request.client.host if request.client else "127.0.0.1"
ClientHost(peer) == IF peer # NoneValue THEN peer ELSE Localhost

\* client_ip of get_screenshot
ClientIp(xff, peer) ==
    LET client_ip == HeaderText(Strip(FirstEntry(xff)))
    IN IF client_ip = <<>> THEN ClientHost(peer) ELSE client_ip

ToUpperChar(c) ==
    CASE c = "b" -> "B"
      [] c = "e" -> "E"
      [] c = "f" -> "F"
      [] c = "g" -> "G"
      [] c = "r" -> "R"
      [] c = "s" -> "S"
      [] OTHER -> c

UpperUnchanged(text) == text

\* country.upper()
Upper(text) == [k \in 1..Len(text) |-> ToUpperChar(text[k])]

\* f"inline; filename=isitchristmas-{country}.png"
ContentDisposition(country) ==
    <<"inline; filename=isitchristmas-">> \o country \o <<".png">>

\* get_screenshot up to its await: the country is resolved from the client
\* address or taken from the parameter, and the capture is called with it
GetScreenshot(i, query, xff, peer) ==
    /\ "app" \in imported
    /\ pc[i] = "idle"
    /\ http[i].state = "none"
    /\ LET client_ip == IF query = NoneValue THEN ClientIp(xff, peer) ELSE NoneValue
           geo == IF query = NoneValue
                  THEN GetCountryFromIpApp(client_ip, app_geoip_reader, db_entry)
                  ELSE NoCall
           country == IF query = NoneValue THEN geo.ret ELSE Upper(query)
           escaped == query = NoneValue /\ geo.raised # NoException
       IN
        /\ http' = [http EXCEPT ![i] =
                [state |-> IF escaped THEN "raised" ELSE "awaiting",
                 query |-> query, xff |-> xff, peer |-> peer,
                 client_ip |-> client_ip, geo |-> geo, country |-> country,
                 response |-> [status_code |-> 0]]]
        /\ IF escaped
           THEN UNCHANGED <<pc, country_code, playwright>>
           ELSE /\ pc' = [pc EXCEPT ![i] = "launch"]
                /\ country_code' = [country_code EXCEPT ![i] = country]
                /\ playwright' = [playwright EXCEPT ![i] = "started"]
    /\ UNCHANGED <<geoVars, env, browser, page, routed, requests,
                   screenshot_bytes, result, log>>

\* the capture returned: return Response(content=screenshot, media_type=..., headers=...)
Respond(i) ==
    /\ http[i].state = "awaiting"
    /\ pc[i] = "done"
    /\ http' = [http EXCEPT ![i].state = "returned",
                            ![i].response =
                                [status_code |-> 200,
                                 content |-> result[i].bytes,
                                 media_type |-> "image/png",
                                 content_disposition |-> ContentDisposition(http[i].country)]]
    /\ UNCHANGED <<geoVars, env, pc, country_code, playwright, browser, page,
                   routed, requests, screenshot_bytes, result, log>>

\* the capture raised: the exception leaves get_screenshot, no Response is built
RespondRaise(i) ==
    /\ http[i].state = "awaiting"
    /\ pc[i] = "failed"
    /\ http' = [http EXCEPT ![i].state = "raised"]
    /\ UNCHANGED <<geoVars, env, pc, country_code, playwright, browser, page,
                   routed, requests, screenshot_bytes, result, log>>

NextHttp ==
    \/ \E i \in env.sessions, query \in Queries, xff \in HeaderValues, peer \in Peers :
            GetScreenshot(i, query, xff, peer)
    \/ \E i \in env.sessions : Launch(i)
    \/ \E i \in env.sessions : NewPage(i)
    \/ \E i \in env.sessions : Route(i)
    \/ \E i \in env.sessions : Goto(i)
    \/ \E i \in env.sessions, type \in env.subtypes : IssueSubRequest(i, type)
    \/ \E i \in env.sessions, k \in 1..(1 + env.subs) : HandleRoute(i, k)
    \/ \E i \in env.sessions, k \in 1..(1 + env.subs) : HandleRouteFulfill(i, k)
    \/ \E i \in env.sessions : GotoDone(i)
    \/ \E i \in env.sessions : Settle(i)
    \/ \E i \in env.sessions : Screenshot(i)
    \/ \E i \in env.sessions : Close(i)
    \/ \E i \in env.sessions : Return(i)
    \/ \E i \in env.sessions : Raise(i)
    \/ \E i \in env.sessions : Respond(i)
    \/ \E i \in env.sessions : RespondRaise(i)

\* the dataset installed at no candidate path, or at the first
HttpFileSystems == {files \in FileSystems : files[1] # "corrupt" /\ files[2] = "missing" /\ files[3] = "missing"}

\* the service after the import of app.py, one request, the site serving one
\* document and one script
InitHttp ==
    /\ fs \in HttpFileSystems
    /\ imported = {"app"}
    /\ geoip_reader = 0
    /\ app_geoip_reader = LoadReaderApp(fs)
    /\ app_out = NoCall
    /\ ip_address = <<>>
    /\ db_entry \in DbEntries
    /\ called = FALSE
    /\ ret = NoReturn
    /\ raised = NoException
    /\ queried = FALSE
    /\ CapIdle
    /\ env = [sessions |-> {1}, codes |-> {},
              responses |-> {[status |-> 200, headers |-> "text/html", body |-> BodyMatch]},
              subtypes |-> {"script"}, subs |-> 1]

SpecHttp == InitHttp /\ [][NextHttp]_vars

---------------------------------------------------------------------------
(* Claims about the Capture Pipeline *)

Terminal(i) == pc[i] \in {"done", "failed"}
Made(i, call) == \E n \in 1..Len(log[i]) : log[i][n].call = call
Succeeded(i, call) == \E n \in 1..Len(log[i]) : log[i][n].call = call /\ log[i][n].ok
Failed(i, call) == \E n \in 1..Len(log[i]) : log[i][n].call = call /\ ~log[i][n].ok
Count(i, call) == Cardinality({n \in 1..Len(log[i]) : log[i][n].call = call})

\* the rewrite the specification describes: every match replaced by the text
\* var country = "<country_code>"; taken literally
LiteralRewrite(code, body) == ReplaceAll(body, Replacement(code), 1)

\* C1: once the browser has been launched it is closed before the invocation
\* ends, whether the later steps succeeded or raised: no terminal state has a
\* launched browser on which close was not performed.
C1_ClosedAtEnd ==
    \A i \in Invocations :
        (Terminal(i) /\ Succeeded(i, "launch")) => Made(i, "close")

\* C6: the body delivered for the document request is the fetched body with
\* every match of the pattern replaced by var country = "<country_code>"; and
\* all other text unchanged, under the status and headers of the fetched
\* response, for every country_code passed to capture.
C6_DocumentRewritten ==
    \A i \in Invocations : \A k \in 1..Len(requests[i]) :
        LET req == requests[i][k] IN
        (req.resource_type = "document" /\ req.fetches > 0 /\ req.resolution # "pending")
            => /\ req.resolution = "fulfill"
               /\ req.delivered =
                    [status |-> req.fetched.status,
                     headers |-> req.fetched.headers,
                     body |-> LiteralRewrite(country_code[i], req.fetched.body)]

\* C7: every intercepted request whose resource type is not document is
\* continued, never fetched and fulfilled by the handler, and reaches the page
\* as the server sent it; only document requests are ever rewritten.
C7_OthersPassThrough ==
    \A i \in Invocations : \A k \in 1..Len(requests[i]) :
        LET req == requests[i][k] IN
        /\ req.resource_type # "document" =>
              /\ req.fetches = 0
              /\ req.resolution \in {"pending", "continue"}
              /\ req.resolution = "continue" =>
                    req.delivered = SubResponse(req.resource_type)
        /\ req.resolution = "fulfill" => req.resource_type = "document"

\* C7 witness: a script holding the pattern was continued after the document
\* had been rewritten
C7_Witness ==
    \E i \in Invocations :
        /\ Len(requests[i]) = 2
        /\ requests[i][1].resolution = "fulfill"
        /\ requests[i][1].delivered.body # requests[i][1].fetched.body
        /\ requests[i][2].resource_type = "script"
        /\ requests[i][2].resolution = "continue"
        /\ HasMatch(requests[i][2].delivered.body)

\* C8: when the fetched document holds no match of the pattern, the rewrite is
\* not an error: the handler fulfills the request with a body identical to the
\* fetched one.
C8_NoMatchPassesThrough ==
    \A i \in Invocations : \A k \in 1..Len(requests[i]) :
        LET req == requests[i][k] IN
        (/\ req.resource_type = "document"
         /\ req.fetches > 0
         /\ ~HasMatch(req.fetched.body)
         /\ req.resolution # "pending")
            => /\ req.resolution = "fulfill"
               /\ req.delivered.body = req.fetched.body

\* what the page of invocation i must have been given, from i's own argument
\* and the responses served to i alone
OwnContent(i) ==
    [k \in 1..Len(requests[i]) |->
        IF requests[i][k].resource_type = "document"
        THEN [status |-> requests[i][k].fetched.status,
              headers |-> requests[i][k].fetched.headers,
              body |-> LiteralRewrite(country_code[i], requests[i][k].fetched.body)]
        ELSE SubResponse(requests[i][k].resource_type)]

\* C9: for capture invocations run sequentially or interleaved, the document of
\* invocation i is rewritten with i's own country code, a browser is closed
\* only by its own invocation, and the bytes an invocation returns are those of
\* its own page, whatever the other invocations did.
C9_Isolated ==
    \A i \in Invocations :
        /\ \A k \in 1..Len(requests[i]) :
              requests[i][k].resolution = "fulfill" =>
                  requests[i][k].delivered.body =
                      LiteralRewrite(country_code[i], requests[i][k].fetched.body)
        /\ (browser[i] = "open") = (Succeeded(i, "launch") /\ ~Succeeded(i, "close"))
        /\ (browser[i] = "closed") = Succeeded(i, "close")
        /\ result[i].kind = "png" =>
              result[i].bytes = [type |-> "png", full_page |-> TRUE,
                                 content |-> OwnContent(i)]

\* C9 witness: two invocations called with different codes; the first has
\* returned its PNG and closed its browser while the second, its document
\* already rewritten, is still navigating with its browser open
C9_Witness ==
    /\ country_code[1] = SE
    /\ country_code[2] = FR
    /\ result[1].kind = "png"
    /\ browser[1] = "closed"
    /\ pc[2] = "navigating"
    /\ browser[2] = "open"
    /\ Len(requests[2]) >= 1
    /\ requests[2][1].resolution = "fulfill"

\* C10: if browser launch or navigation fails, capture ends with an error for
\* its caller: no second launch, no second navigation, no screenshot after the
\* failure, and no PNG returned.
C10_FailureIsFinal ==
    \A i \in Invocations :
        /\ Count(i, "launch") <= 1
        /\ Count(i, "goto") <= 1
        /\ (Failed(i, "launch") \/ Failed(i, "goto")) =>
              /\ pc[i] = "failed"
              /\ result[i].kind = "error"
              /\ ~Made(i, "screenshot")
              /\ screenshot_bytes[i] = NoBytes

\* C10 witness: a navigation that failed after its document had been fetched
C10_Witness ==
    \E i \in Invocations :
        /\ Failed(i, "goto")
        /\ Succeeded(i, "launch")
        /\ Len(requests[i]) >= 1
        /\ requests[i][1].fetches = 1
        /\ result[i] = [kind |-> "error", at |-> "goto"]

\* the awaited calls of capture, in the order of the source
CallOrder ==
    <<"launch", "new_page", "route", "goto", "wait_for_timeout", "screenshot", "close">>

\* C13: in every capture invocation the steps occur in the fixed order launch,
\* open page, install the handler, navigate, settle wait, screenshot, close,
\* return: the handler is installed before any request of the page is issued,
\* the screenshot is never taken before navigation and the settle wait have
\* completed, and bytes are returned only after the browser is closed.
C13_StepsInOrder ==
    \A i \in Invocations :
        /\ Len(log[i]) <= Len(CallOrder)
        /\ \A n \in 1..Len(log[i]) :
              /\ log[i][n].call = CallOrder[n]
              /\ n < Len(log[i]) => log[i][n].ok
        /\ \A k \in 1..Len(requests[i]) : requests[i][k].intercepted
        /\ Len(requests[i]) > 0 => Succeeded(i, "route")
        /\ Made(i, "screenshot") =>
              (Succeeded(i, "goto") /\ Succeeded(i, "wait_for_timeout"))
        /\ screenshot_bytes[i] # NoBytes => Succeeded(i, "wait_for_timeout")
        /\ result[i].kind = "png" =>
              (browser[i] = "closed" /\ Succeeded(i, "close") /\ pc[i] = "done")

\* C13 witness: an invocation that returned its PNG after all seven calls, its
\* document rewritten by the handler
C13_Witness ==
    \E i \in Invocations :
        /\ result[i].kind = "png"
        /\ Len(log[i]) = 7
        /\ requests[i][1].resolution = "fulfill"
        /\ requests[i][1].delivered.body # requests[i][1].fetched.body

\* C17: every request intercepted by the handler is resolved exactly once when
\* the handler completes without error: a document request by exactly one
\* fulfill after exactly one fetch, any other request by exactly one continue;
\* no request is both fulfilled and continued, and none is left unresolved.
C17_ResolvedOnce ==
    \A i \in Invocations : \A k \in 1..Len(requests[i]) :
        LET req == requests[i][k] IN
        /\ req.fulfills + req.continues <= 1
        /\ req.fetches <= 1
        /\ req.handler = "returned" =>
              IF req.resource_type = "document"
              THEN req.fetches = 1 /\ req.fulfills = 1 /\ req.continues = 0
              ELSE req.fetches = 0 /\ req.fulfills = 0 /\ req.continues = 1
        /\ req.fulfills = 1 => req.fetches = 1

\* C17 witness: a page whose document was fulfilled and whose image was
\* continued, both handlers having returned
C17_Witness ==
    \E i \in Invocations :
        /\ Len(requests[i]) = 2
        /\ requests[i][1].handler = "returned"
        /\ requests[i][1].fulfills = 1
        /\ requests[i][2].resource_type = "image"
        /\ requests[i][2].handler = "returned"
        /\ requests[i][2].continues = 1

---------------------------------------------------------------------------
(* The resolver under check: the reader as the module left it after import, *)
(* one call with an argument and a dataset answer drawn from the bounded    *)
(* sets.                                                                    *)

\* the dataset installed at no candidate path, or at exactly one
InstalledFileSystems ==
    {files \in [1..NumPaths -> {"missing", "ok"}] :
        Cardinality({k \in 1..NumPaths : files[k] = "ok"}) <= 1}

InitResolve ==
    /\ fs \in InstalledFileSystems
    /\ imported = {"maxmind", "app"}
    /\ geoip_reader = LoadReader(fs)
    /\ app_geoip_reader = LoadReaderApp(fs)
    /\ app_out = NoCall
    /\ ip_address \in IpInputs
    /\ db_entry \in DbEntries
    /\ called = FALSE
    /\ ret = NoReturn
    /\ raised = NoException
    /\ queried = FALSE
    /\ env = [sessions |-> {}, codes |-> {}, responses |-> {}, subtypes |-> {}, subs |-> 0]
    /\ CapIdle

\* the call get_country_from_ip(ip_address) of maxmind.py
Resolve ==
    /\ "maxmind" \in imported
    /\ ~called
    /\ LET r == GetCountryFromIp(ip_address, geoip_reader, db_entry) IN
        /\ ret' = r.ret
        /\ raised' = r.raised
        /\ queried' = r.queried
    /\ called' = TRUE
    /\ UNCHANGED <<geoip_reader, ip_address, db_entry, fs, imported,
                   app_geoip_reader, app_out, capVars>>

\* the call get_country_from_ip(ip_address) of app.py
ResolveApp ==
    /\ "app" \in imported
    /\ app_out = NoCall
    /\ app_out' = GetCountryFromIpApp(ip_address, app_geoip_reader, db_entry)
    /\ UNCHANGED <<geoip_reader, ip_address, db_entry, called, ret, raised,
                   queried, fs, imported, app_geoip_reader, capVars>>

NextResolve ==
    \/ Resolve
    \/ ResolveApp

SpecResolve == InitResolve /\ [][NextResolve]_vars

\* maxmind.py is imported: its top-level code sets geoip_reader
ImportMaxmind ==
    /\ "maxmind" \notin imported
    /\ imported' = imported \cup {"maxmind"}
    /\ geoip_reader' = LoadReader(fs)
    /\ UNCHANGED <<ip_address, db_entry, called, ret, raised, queried, fs,
                   app_geoip_reader, app_out, capVars>>

\* app.py is imported: its top-level code sets its own geoip_reader
ImportApp ==
    /\ "app" \notin imported
    /\ imported' = imported \cup {"app"}
    /\ app_geoip_reader' = LoadReaderApp(fs)
    /\ UNCHANGED <<geoip_reader, ip_address, db_entry, called, ret, raised,
                   queried, fs, app_out, capVars>>

\* addresses of each kind: empty, malformed, public, loopback, private
ImportIps == {<<>>, <<999, 999, 999, 999>>, <<8, 8, 8, 8>>, <<127, 8, 8, 8>>, <<192, 168, 8, 10>>}

\* a process from before its imports: any state of the candidate files, then
\* the imports, then calls of the resolvers
InitImport ==
    /\ fs \in FileSystems
    /\ imported = {}
    /\ geoip_reader = 0
    /\ app_geoip_reader = 0
    /\ app_out = NoCall
    /\ ip_address \in ImportIps
    /\ db_entry \in DbEntries
    /\ called = FALSE
    /\ ret = NoReturn
    /\ raised = NoException
    /\ queried = FALSE
    /\ env = [sessions |-> {}, codes |-> {}, responses |-> {}, subtypes |-> {}, subs |-> 0]
    /\ CapIdle

NextImport ==
    \/ ImportMaxmind
    \/ ImportApp
    \/ Resolve
    \/ ResolveApp

SpecImport == InitImport /\ [][NextImport]_vars

\* the address parses and is private-range or loopback-range
ParsesLocal == ParseIp(ip_address).ok /\ (IsPrivate(ParseIp(ip_address).octets) \/ IsLoopback(ParseIp(ip_address).octets))
ParsesPublic == ParseIp(ip_address).ok /\ ~IsPrivate(ParseIp(ip_address).octets) /\ ~IsLoopback(ParseIp(ip_address).octets)
TwoUpperLetters(code) == Len(code) = 2 /\ code[1] \in UpperLetters /\ code[2] \in UpperLetters

\* C2: get_country_from_ip never lets an exception escape: for every input and
\* every dataset state, the call returns a two-letter country code.
C2_NeverRaises ==
    called => /\ raised = NoException
              /\ TwoUpperLetters(ret)

\* C2 witness: a call whose lookup raised an error other than a miss has returned
C2_Witness ==
    /\ called /\ queried
    /\ db_entry.exc = "InvalidDatabaseError"
    /\ ret = GB

\* C3: for an address that parses and is private or loopback, the call returns
\* exactly GB, with or without a dataset and whatever the dataset holds, and the
\* dataset is never queried.
C3_LocalIsGB ==
    (called /\ ParsesLocal) => (ret = GB /\ raised = NoException /\ ~queried)

\* C3 witness: 192.168.x.x resolved with a reader loaded and a dataset hit
C3_Witness ==
    /\ called
    /\ ParsesLocal
    /\ ip_address[1] = 192
    /\ ~IsLoopback(ip_address)
    /\ geoip_reader # 0
    /\ db_entry.iso_code = US
    /\ ret = GB

\* C4: for an input that does not parse as an address (empty, non-address text,
\* out-of-range parts, absent), the call returns exactly GB without querying the
\* dataset, in every dataset state.
C4_MalformedIsGB ==
    (called /\ ~ParseIp(ip_address).ok) =>
        (ret = GB /\ raised = NoException /\ ~queried)

\* C4 witness: 999.999.999.999 resolved with a reader loaded and a dataset hit
C4_Witness ==
    /\ called
    /\ ip_address = <<999, 999, 999, 999>>
    /\ geoip_reader # 0
    /\ db_entry.iso_code = AU
    /\ ret = GB

C14_FallbackPolicy ==
    called =>
        LET found == /\ ParsesPublic
                     /\ geoip_reader # 0
                     /\ db_entry.exc = NoException
                     /\ db_entry.iso_code \notin {NoneValue, <<>>}
        IN  /\ raised = NoException
            /\ found => ret = db_entry.iso_code
            /\ ~found => ret = GB
            /\ ret # GB => found

\* C14 witness: a public address resolved with no dataset loaded, where the
\* dataset would have held a code
C14_Witness ==
    /\ called
    /\ ParsesPublic
    /\ geoip_reader = 0
    /\ db_entry.iso_code = AU
    /\ ret = GB

\* reader is the first candidate, in list order, that exists and loads, or None
\* (0) when no candidate loads
FirstLoadable(reader) ==
    \/ /\ reader = 0
       /\ \A k \in 1..NumPaths : fs[k] # "ok"
    \/ /\ reader \in 1..NumPaths
       /\ fs[reader] = "ok"
       /\ \A j \in 1..(reader - 1) : fs[j] # "ok"

HandlesAsLoaded ==
    /\ IF "maxmind" \in imported THEN FirstLoadable(geoip_reader) ELSE geoip_reader = 0
    /\ IF "app" \in imported THEN FirstLoadable(app_geoip_reader) ELSE app_geoip_reader = 0

HandlesKept ==
    /\ "maxmind" \in imported => geoip_reader' = geoip_reader
    /\ "app" \in imported => app_geoip_reader' = app_geoip_reader

\* C15: after the one-time initialization over the ordered candidate paths the
\* dataset handle is the first candidate that exists and loads (one that exists
\* but fails to load is skipped), or is absent when none loads; afterwards no
\* call of the resolver changes the handle.
C15_HandleLoadedOnce == [](HandlesAsLoaded) /\ [][HandlesKept]_vars

\* C15 witness: the first candidate exists but fails to load, the second and
\* third load; both modules hold the second, and both resolvers have been called
C15_Witness ==
    /\ fs = <<"corrupt", "ok", "ok">>
    /\ imported = {"maxmind", "app"}
    /\ geoip_reader = 2
    /\ app_geoip_reader = 2
    /\ called
    /\ app_out # NoCall

\* C18: maxmind.get_country_from_ip and app.get_country_from_ip are
\* observationally equivalent: started from the same candidate files, for every
\* input address and every dataset state both return the same country code.
C18_CopiesAgree ==
    /\ (imported = {"maxmind", "app"}) => app_geoip_reader = geoip_reader
    /\ (called /\ app_out # NoCall) =>
          app_out = [ret |-> ret, raised |-> raised, queried |-> queried]

\* C18 witness: both copies resolved a public address against a loaded dataset
\* whose lookup raised
C18_Witness ==
    /\ called
    /\ app_out # NoCall
    /\ ParsesPublic
    /\ geoip_reader # 0
    /\ db_entry.exc = "InvalidDatabaseError"
    /\ app_out.ret = GB

---------------------------------------------------------------------------
(* Claims about the Screenshot Service *)

CasePairs == {<<"b", "B">>, <<"e", "E">>, <<"f", "F">>, <<"g", "G">>, <<"r", "R">>, <<"s", "S">>}

\* code is text with every letter in upper case
IsUppercaseOf(code, text) ==
    /\ Len(code) = Len(text)
    /\ \A k \in 1..Len(text) :
          /\ code[k] \in UpperLetters
          /\ code[k] = text[k] \/ <<text[k], code[k]>> \in CasePairs

\* the response of a request that succeeded: 200, image/png, the bytes of the
\* capture, and the file name isitchristmas-<code>.png
PngResponseFor(i, code) ==
    /\ pc[i] = "done"
    /\ http[i].response.status_code = 200
    /\ http[i].response.media_type = "image/png"
    /\ http[i].response.content = result[i].bytes
    /\ http[i].response.content_disposition =
            <<"inline; filename=isitchristmas-">> \o code \o <<".png">>

\* C11: a request with a country parameter c does not consult the resolver; the
\* capture is invoked with uppercase(c), and on success the response is 200,
\* image/png, with Content-Disposition inline; filename=isitchristmas-<uppercase(c)>.png:
\* the code in the file name is the code passed to the capture.
C11_CountryParameter ==
    \A i \in Invocations :
        (http[i].state # "none" /\ http[i].query # NoneValue) =>
            /\ http[i].geo = NoCall
            /\ http[i].client_ip = NoneValue
            /\ IsUppercaseOf(country_code[i], http[i].query)
            /\ http[i].state = "returned" => PngResponseFor(i, country_code[i])

\* C11 witness: ?country=Fr was answered with the capture made for FR
C11_Witness ==
    /\ http[1].state = "returned"
    /\ http[1].query = <<"F", "r">>
    /\ country_code[1] = FR
    /\ http[1].response.status_code = 200

IsBareLoopbackRequest(i) ==
    /\ http[i].query = NoneValue
    /\ http[i].xff = <<>>
    /\ http[i].peer = Localhost

\* C12: a request with no country parameter and no forwarding header from a
\* loopback client behaves as ?country=gb does: in both the capture is invoked
\* with GB and the file name is isitchristmas-GB.png, whatever the dataset state.
C12_LoopbackAsGb ==
    \A i \in Invocations :
        (http[i].state # "none" /\ (IsBareLoopbackRequest(i) \/ http[i].query = <<"g", "b">>)) =>
            /\ country_code[i] = GB
            /\ http[i].state = "returned" => PngResponseFor(i, GB)

\* C12 witness: a bare request from a loopback client was answered while the
\* dataset is loaded and holds a country for the address
C12_Witness ==
    /\ http[1].state = "returned"
    /\ IsBareLoopbackRequest(1)
    /\ app_geoip_reader # 0
    /\ db_entry.iso_code = US
    /\ http[1].response.status_code = 200

\* text is the first comma-separated entry of header, trimmed
IsTrimmedFirstEntry(text, header) ==
    \E n \in 0..Len(header), a \in 0..Len(header), b \in 0..Len(header) :
        /\ \A k \in 1..n : header[k] # Comma
        /\ n = Len(header) \/ header[n + 1] = Comma
        /\ a + b <= n
        /\ \A k \in 1..a : header[k] = Space
        /\ \A k \in (n - b + 1)..n : header[k] = Space
        /\ LET t == SubSeq(header, a + 1, n - b) IN
            /\ t # <<>> => t[1] # Space /\ t[Len(t)] # Space
            /\ text = IF t = <<>> THEN <<>>
                      ELSE IF Len(t) = 1 /\ t[1].kind = "addr" THEN t[1].ip
                      ELSE <<NonNumeric>>

\* C16: without a country parameter the address given to the resolver is the
\* first comma-separated entry of X-Forwarded-For, trimmed, when non-empty;
\* otherwise the transport peer address when a peer is known; otherwise
\* 127.0.0.1. The code the resolver returns is the code passed to the capture
\* and the code in the file name.
C16_ClientAddress ==
    \A i \in Invocations :
        (http[i].state # "none" /\ http[i].query = NoneValue) =>
            /\ \E text \in {<<>>, <<NonNumeric>>, PublicHost, PrivateHost} :
                  /\ IsTrimmedFirstEntry(text, http[i].xff)
                  /\ http[i].client_ip =
                        IF text # <<>> THEN text
                        ELSE IF http[i].peer # NoneValue THEN http[i].peer
                        ELSE <<127, 0, 0, 1>>
            /\ http[i].geo = GetCountryFromIpApp(http[i].client_ip, app_geoip_reader, db_entry)
            /\ http[i].geo.ret = country_code[i]
            /\ http[i].state = "returned" => PngResponseFor(i, http[i].geo.ret)

\* C16 witness: the header " 8.8.8.8 " was trimmed to a public address, the
\* loaded dataset answered US, and the response names US
C16_Witness ==
    /\ http[1].state = "returned"
    /\ http[1].query = NoneValue
    /\ http[1].xff = <<Space, Addr(PublicHost), Space>>
    /\ http[1].client_ip = PublicHost
    /\ app_geoip_reader # 0
    /\ country_code[1] = US
    /\ http[1].response.status_code = 200

=============================================================================
